---- MODULE Spec2Model ----
(***************************************************************************)
(* Model of llmstack/play/output_stream.py: the stitch_model_objects merge *)
(* function and the OutputStream client (write, write_raw, get_data,       *)
(* finalize, bookkeep, error) relaying envelopes to a coordinator actor.   *)
(*                                                                         *)
(* Python values are tuples whose first component is the kind:             *)
(*   <<"null">>            None                                           *)
(*   <<"int", n>>          an int scalar                                  *)
(*   <<"str", s>>          a str                                          *)
(*   <<"enum", s>>         a StrEnum member with value s (a kind of its   *)
(*                         own, apart from str)                            *)
(*   <<"list", q>>         a list, q a sequence of values                 *)
(*   <<"dict", f>>         a dict, f a function from keys to values       *)
(*   <<"model", T, f>>     a pydantic BaseModel instance of class T, f    *)
(*                         its fields                                      *)
(***************************************************************************)
EXTENDS Integers, Sequences, FiniteSets, TLC

----------------------------------------------------------------------------
(* Bounds *)

MaxCalls == 3

----------------------------------------------------------------------------
(* Python values *)

Null == <<"null">>
PyInt(n) == <<"int", n>>
PyStr(s) == <<"str", s>>
PyEnum(s) == <<"enum", s>>
PyList(q) == <<"list", q>>
PyDict(f) == <<"dict", f>>
PyModel(T, f) == <<"model", T, f>>

Kind(v) == v[1]
\* a test "not obj" in place of "obj is None"
IsNone_falsy(v) ==
    \/ Kind(v) = "null"
    \/ Kind(v) = "int" /\ v[2] = 0
    \/ Kind(v) = "str" /\ v[2] = ""
    \/ Kind(v) = "list" /\ v[2] = <<>>
    \/ Kind(v) = "dict" /\ DOMAIN v[2] = {}

IsNone(v) == Kind(v) = "null"
IsBaseModel(v) == Kind(v) = "model"
IsDict(v) == Kind(v) = "dict"
IsList(v) == Kind(v) = "list"
IsStrEnum(v) == Kind(v) = "enum"
\* isinstance(v, str); the StrEnum class is not part of the sources at hand
\* and a tagged-enum value is taken as a kind apart from text
IsStr(v) == Kind(v) = "str"

\* a test "obj2 is not None" in place of the truthiness of obj2
Truthy_not_none(v) == Kind(v) # "null"

\* Python truthiness, as used by "obj2 if obj2 else obj1"
Truthy(v) ==
    CASE Kind(v) = "null" -> FALSE
      [] Kind(v) = "int" -> v[2] # 0
      [] Kind(v) = "str" -> v[2] # ""
      [] Kind(v) = "enum" -> v[2] # ""
      [] Kind(v) = "list" -> Len(v[2]) > 0
      [] Kind(v) = "dict" -> DOMAIN v[2] # {}
      [] Kind(v) = "model" -> TRUE

\* the length a zip of the two lists would give
Max_shorter(a, b) == IF a <= b THEN a ELSE b

Max(a, b) == IF a >= b THEN a ELSE b

\* an enum merge that keeps the first value
stitch_enum_first(obj1, obj2) == obj1

\* "obj1 if obj1.value == obj2.value else obj2"
stitch_enum(obj1, obj2) == IF obj1[2] = obj2[2] THEN obj1 ELSE obj2

RECURSIVE stitch_model_objects(_, _)

\* the nested helper stitch_fields: union of the keys, missing side is None
stitch_fields(f1, f2) ==
    [k \in (DOMAIN f1) \cup (DOMAIN f2) |->
        stitch_model_objects(IF k \in DOMAIN f1 THEN f1[k] ELSE Null,
                             IF k \in DOMAIN f2 THEN f2[k] ELSE Null)]

stitch_model_objects(obj1, obj2) ==
    IF IsNone(obj1) THEN obj2
    ELSE IF IsNone(obj2) THEN obj1
    ELSE IF IsBaseModel(obj1) /\ IsBaseModel(obj2) /\ obj1[2] = obj2[2]
    THEN PyModel(obj1[2], [f \in DOMAIN obj1[3] |->
                            stitch_model_objects(obj1[3][f], obj2[3][f])])
    ELSE IF IsDict(obj1) /\ IsDict(obj2)
    THEN PyDict(stitch_fields(obj1[2], obj2[2]))
    ELSE IF IsList(obj1) /\ IsList(obj2)
    THEN IF Len(obj1[2]) = 0 THEN obj2
         ELSE IF Len(obj2[2]) = 0 THEN obj1
         ELSE PyList([i \in 1..Max(Len(obj1[2]), Len(obj2[2])) |->
                      stitch_model_objects(
                          IF i <= Len(obj1[2]) THEN obj1[2][i] ELSE Null,
                          IF i <= Len(obj2[2]) THEN obj2[2][i] ELSE Null)])
    ELSE IF IsStrEnum(obj1) /\ IsStrEnum(obj2)
    THEN stitch_enum(obj1, obj2)
    ELSE IF IsStr(obj1) /\ IsStr(obj2)
    THEN PyStr(obj1[2] \o obj2[2])
    ELSE IF Truthy(obj2) THEN obj2 ELSE obj1

\* pydantic model_dump(): a model becomes the dict of its fields, nested
\* models inside fields, lists and dicts are dumped too
RECURSIVE model_dump(_)
model_dump(v) ==
    CASE Kind(v) = "model" -> PyDict([f \in DOMAIN v[3] |-> model_dump(v[3][f])])
      [] Kind(v) = "dict" -> PyDict([k \in DOMAIN v[2] |-> model_dump(v[2][k])])
      [] Kind(v) = "list" -> PyList([i \in 1..Len(v[2]) |-> model_dump(v[2][i])])
      [] OTHER -> v

\* "x.model_dump() if isinstance(x, BaseModel) else x"
DumpIfModel(v) == IF IsBaseModel(v) THEN model_dump(v) ELSE v

----------------------------------------------------------------------------
(* Model classes that callers pass as output_cls or write as deltas *)

NoCls == "NoCls"
ModelFields(T) == IF T = "T" THEN {"x", "text"} ELSE {"text"}
RequiredFields(T) == IF T = "T" THEN {"x"} ELSE {}

\* the fields of v that a constructor T(**v) can use
Satisfies(T, v) ==
    /\ Kind(v) \in {"dict", "model"}
    /\ LET f == IF IsDict(v) THEN v[2] ELSE v[3]
       IN \A r \in RequiredFields(T) : r \in DOMAIN f /\ ~IsNone(f[r])

\* self._output_cls(**self._data): raises unless _data is a mapping holding
\* the required fields; undeclared keys are ignored, missing optional
\* fields default to None
CanConstruct(T, v) == IsDict(v) /\ Satisfies(T, v)
Construct(T, v) ==
    PyModel(T, [f \in ModelFields(T) |-> IF f \in DOMAIN v[2] THEN v[2][f] ELSE Null])

----------------------------------------------------------------------------
(* Inputs of the calls *)

Clients == {"c1", "c2"}
Tasks == {"t1", "t2"}
NoProxy == 0

DictHello == PyDict([text |-> PyStr("Hello")])
DictWorld == PyDict([text |-> PyStr(" World")])
DictX == PyDict([x |-> PyInt(1)])
RecU == PyModel("U", [text |-> PyStr("a")])

\* the values handed to write
Deltas == {DictHello, DictWorld, DictX, RecU}

\* the exceptions handed to error, by their str()
Errors == {"boom"}

\* the entries handed to bookkeep and the clock readings of time.time()
Entries == {RecU}
Timestamps == {1}

----------------------------------------------------------------------------
(* Messages *)

NoData == <<"nodata">>
ContentStreamChunkData(chunk) == <<"chunk", chunk>>
ContentData(content) == <<"content", content>>
ErrorsData(message) == <<"errors", <<message>>>>

\* the id of a Message built without an id argument: it is whatever the
\* Message class defaults to, never the client's _message_id
DefaultId == "default"

Message(id, type, sender, data) ==
    [id |-> id, type |-> type, sender |-> sender, receiver |-> "coordinator",
     data |-> data]

\* the caller-built messages handed to write_raw
RawMessages == {Message("raw", "CONTENT_STREAM_CHUNK", "other", ContentStreamChunkData(PyStr("r")))}

----------------------------------------------------------------------------
(* State *)

VARIABLES
    data,               \* _data of each client, Null when None
    output_cls,         \* _output_cls of each client, NoCls when None
    message_id,         \* _message_id of each client
    stream_id,          \* _stream_id of each client
    coordinator_proxy,  \* _coordinator_proxy of each client: NoProxy when None,
                        \* else n for the ActorProxy its n-th registry query made
    bookkeeping_queue,  \* the asyncio.Queue shared by the clients
    registry,           \* whether the registry holds an actor for the urn
    mailbox,            \* the coordinator's mailbox: [msg, by, op] in arrival order
    owner,              \* the client each task calls
    pc,                 \* "ready", or "sleeping" inside asyncio.sleep
    lookups,            \* per client: queries made to the registry
    hits,               \* per client: queries that returned an actor
    attempts,           \* per client: reads of the _coordinator property
    written,            \* per client: deltas of the writes that returned normally
    base,               \* per client: Len(written) when _data was last cleared
    finalized,          \* per client: a finalize has relayed its two envelopes
    misused,            \* per client: write or finalize was called after that
    issued,             \* per client: what its calls relayed, in call order
    last,               \* the most recent call and what it did
    ncalls,             \* calls made so far
    has_queue,          \* per client: a bookkeeping_queue was passed to __init__
    stitch_call         \* a call of stitch_model_objects: arguments and result

vars == <<data, output_cls, message_id, stream_id, coordinator_proxy,
          bookkeeping_queue, registry, mailbox, owner, pc, lookups, hits,
          attempts, written, base, finalized, misused, issued, last, ncalls,
          has_queue, stitch_call>>

\* what no method of OutputStream changes
config == <<output_cls, message_id, stream_id, owner, has_queue, stitch_call>>
ghost == <<written, base, finalized, misused>>

NoCall ==
    [task |-> "none", client |-> "none", op |-> "none", arg |-> Null,
     before |-> Null, outcome |-> "none", ret |-> Null, relayed |-> <<>>]

InitCommon ==
    /\ data = [c \in Clients |-> Null]
    /\ output_cls \in [Clients -> {NoCls, "T"}]
    /\ message_id = [c \in Clients |-> IF c = "c1" THEN "m1" ELSE "m2"]
    /\ stream_id = [c \in Clients |-> IF c = "c1" THEN "s1" ELSE "s2"]
    /\ coordinator_proxy = [c \in Clients |-> NoProxy]
    /\ bookkeeping_queue = <<>>
    /\ registry = TRUE
    /\ mailbox = <<>>
    /\ pc = [t \in Tasks |-> "ready"]
    /\ lookups = [c \in Clients |-> 0]
    /\ hits = [c \in Clients |-> 0]
    /\ attempts = [c \in Clients |-> 0]
    /\ written = [c \in Clients |-> <<>>]
    /\ base = [c \in Clients |-> 0]
    /\ finalized = [c \in Clients |-> FALSE]
    /\ misused = [c \in Clients |-> FALSE]
    /\ issued = [c \in Clients |-> <<>>]
    /\ last = NoCall
    /\ ncalls = 0

NoStitch == [obj1 |-> Null, obj2 |-> Null, out |-> Null, pc |-> "none"]

OwnTasks == [t \in Tasks |-> IF t = "t1" THEN "c1" ELSE "c2"]

\* each client is driven by a task of its own and was given a queue
Init ==
    /\ InitCommon
    /\ owner = OwnTasks
    /\ has_queue = [c \in Clients |-> TRUE]
    /\ stitch_call = NoStitch

----------------------------------------------------------------------------
(* The coordinator *)

\* a property that asks the registry on every read
coordinator_uncached(c) ==
    IF registry THEN lookups[c] + 1 ELSE NoProxy

\* a property that remembers a failed lookup and never asks again
coordinator_failure_cached(c) ==
    IF coordinator_proxy[c] # NoProxy THEN coordinator_proxy[c]
    ELSE IF registry /\ lookups[c] = 0 THEN lookups[c] + 1 ELSE NoProxy

\* the _coordinator property: the cached proxy when there is one, else a
\* new proxy of the actor the registry holds now; when the lookup raises the
\* exception is logged and None is returned
coordinator(c) ==
    IF coordinator_proxy[c] # NoProxy THEN coordinator_proxy[c]
    ELSE IF registry THEN lookups[c] + 1 ELSE NoProxy

\* the property's effect on the client and on the registry counters
ReadCoordinator(c) ==
    /\ coordinator_proxy' = [coordinator_proxy EXCEPT ![c] = coordinator(c)]
    /\ attempts' = [attempts EXCEPT ![c] = @ + 1]
    /\ lookups' = [lookups EXCEPT ![c] =
                      IF coordinator_proxy[c] = NoProxy THEN @ + 1 ELSE @]
    /\ hits' = [hits EXCEPT ![c] =
                   IF coordinator_proxy[c] = NoProxy /\ registry
                   THEN @ + 1 ELSE @]

NoCoordinator == UNCHANGED <<coordinator_proxy, attempts, lookups, hits>>

\* a mailbox that hands out the newest message first
relay_lifo(mbox, m) == <<m>> \o mbox

\* proxy.relay(message): the message joins the end of the actor's mailbox
relay(mbox, m) == Append(mbox, m)

Entry(msg, c, op) == [msg |-> msg, by |-> c, op |-> op]

\* the calls of one operation reach the mailbox one after the other
Deliver(c, sent) ==
    /\ mailbox' = IF Len(sent) = 0 THEN mailbox
                  ELSE IF Len(sent) = 1 THEN relay(mailbox, sent[1])
                  ELSE relay(relay(mailbox, sent[1]), sent[2])
    /\ issued' = [issued EXCEPT ![c] = @ \o sent]

Ready(t) == pc[t] = "ready" /\ ncalls < MaxCalls

Called(t, op, arg, outcome, ret, sent) ==
    /\ last' = [task |-> t, client |-> owner[t], op |-> op, arg |-> arg,
                before |-> data[owner[t]], outcome |-> outcome, ret |-> ret,
                relayed |-> sent]
    /\ ncalls' = ncalls + 1

----------------------------------------------------------------------------
(* OutputStream *)

\* a write that relays what it has accumulated instead of the delta
chunk_message_accumulated(c, d) ==
    Message(message_id[c], "CONTENT_STREAM_CHUNK", stream_id[c],
            ContentStreamChunkData(IF IsNone(data[c]) THEN DumpIfModel(d)
                                   ELSE stitch_model_objects(data[c], d)))

\* the message write builds for a delta
chunk_message(c, d) ==
    Message(message_id[c], "CONTENT_STREAM_CHUNK", stream_id[c],
            ContentStreamChunkData(DumpIfModel(d)))

\* the value write leaves in _data
accumulate(acc, d) ==
    IF IsNone(acc) THEN DumpIfModel(d) ELSE stitch_model_objects(acc, d)

write(t, d) ==
    LET c == owner[t]
        ok == coordinator(c) # NoProxy
        sent == IF ok THEN <<Entry(chunk_message(c, d), c, "write")>> ELSE <<>>
    IN /\ Ready(t)
       /\ ReadCoordinator(c)
       /\ Deliver(c, sent)
       /\ data' = [data EXCEPT ![c] = IF ok THEN accumulate(@, d) ELSE @]
       /\ pc' = [pc EXCEPT ![t] = IF ok THEN "sleeping" ELSE @]
       /\ written' = [written EXCEPT ![c] = IF ok THEN Append(@, d) ELSE @]
       /\ misused' = [misused EXCEPT ![c] = @ \/ finalized[c]]
       /\ Called(t, "write", d, IF ok THEN "ok" ELSE "AttributeError", Null, sent)
       /\ UNCHANGED <<config, bookkeeping_queue, registry, base, finalized>>

write_raw(t, m) ==
    LET c == owner[t]
        ok == coordinator(c) # NoProxy
        sent == IF ok THEN <<Entry(m, c, "write_raw")>> ELSE <<>>
    IN /\ Ready(t)
       /\ ReadCoordinator(c)
       /\ Deliver(c, sent)
       /\ pc' = [pc EXCEPT ![t] = IF ok THEN "sleeping" ELSE @]
       /\ Called(t, "write_raw", <<"raw", m>>,
                 IF ok THEN "ok" ELSE "AttributeError", Null, sent)
       /\ UNCHANGED <<config, ghost, data, bookkeeping_queue, registry>>

\* the task comes back from "await asyncio.sleep(0.0001)" and the call returns
wake(t) ==
    /\ pc[t] = "sleeping"
    /\ pc' = [pc EXCEPT ![t] = "ready"]
    /\ UNCHANGED <<config, ghost, data, coordinator_proxy, bookkeeping_queue,
                   registry, mailbox, lookups, hits, attempts, issued, last,
                   ncalls>>

\* a get_data that hands the accumulator over and forgets it
get_data_consuming(t) ==
    /\ Ready(t)
    /\ Called(t, "get_data", Null, "ok", data[owner[t]], <<>>)
    /\ data' = [data EXCEPT ![owner[t]] = Null]
    /\ UNCHANGED <<config, ghost, coordinator_proxy, bookkeeping_queue,
                   registry, mailbox, pc, lookups, hits, attempts, issued>>

get_data(t) ==
    /\ Ready(t)
    /\ Called(t, "get_data", Null, "ok", data[owner[t]], <<>>)
    /\ UNCHANGED <<config, ghost, data, coordinator_proxy, bookkeeping_queue,
                   registry, mailbox, pc, lookups, hits, attempts, issued>>

\* finalize builds its output without the constructor when no output_cls is
\* set or _data is a BaseModel of any class
NeedsConstruct(c) == output_cls[c] # NoCls /\ ~IsBaseModel(data[c])

\* a finalize that forgets the constructor
finalize_output_unbuilt(c) == data[c]

finalize_output(c) ==
    IF NeedsConstruct(c) THEN Construct(output_cls[c], data[c]) ELSE data[c]

\* a finalize that sends the content before the end marker
finalize_messages_swapped(c, output) ==
    << Message(message_id[c], "CONTENT", stream_id[c],
               ContentData(DumpIfModel(output))),
       Message(message_id[c], "CONTENT_STREAM_END", stream_id[c], NoData) >>

\* the two messages of finalize, in the order of the two relay calls
finalize_messages(c, output) ==
    << Message(message_id[c], "CONTENT_STREAM_END", stream_id[c], NoData),
       Message(message_id[c], "CONTENT", stream_id[c],
               ContentData(DumpIfModel(output))) >>

\* a finalize that clears _data before it builds the output
after_finalize_cleared_first(acc, raises) == Null

\* _data after finalize: "self._data = None" comes after the constructor, so
\* an exception of the constructor leaves _data as it was
after_finalize(acc, raises) == IF raises THEN acc ELSE Null

finalize(t) ==
    LET c == owner[t]
        raises == NeedsConstruct(c) /\ ~CanConstruct(output_cls[c], data[c])
        ok == ~raises /\ coordinator(c) # NoProxy
        msgs == finalize_messages(c, finalize_output(c))
        sent == IF ok THEN <<Entry(msgs[1], c, "finalize"),
                             Entry(msgs[2], c, "finalize")>>
                ELSE <<>>
    IN /\ Ready(t)
       /\ IF raises THEN NoCoordinator ELSE ReadCoordinator(c)
       /\ Deliver(c, sent)
       /\ data' = [data EXCEPT ![c] = after_finalize(@, raises)]
       /\ base' = [base EXCEPT ![c] = IF raises THEN @ ELSE Len(written[c])]
       /\ finalized' = [finalized EXCEPT ![c] = @ \/ ok]
       /\ misused' = [misused EXCEPT ![c] = @ \/ finalized[c]]
       /\ Called(t, "finalize", Null,
                 IF raises THEN "ConstructionError"
                 ELSE IF ok THEN "ok" ELSE "AttributeError",
                 IF ok THEN finalize_output(c) ELSE Null, sent)
       /\ UNCHANGED <<config, bookkeeping_queue, registry, pc, written>>

\* an entry pushed as it came, without the timestamp
timestamped_data_unstamped(e, ts) == model_dump(e)

\* {**data.model_dump(), "timestamp": timestamp}
timestamped_data(e, ts) ==
    LET dumped == model_dump(e)[2]
    IN PyDict([k \in DOMAIN dumped \cup {"timestamp"} |->
                 IF k = "timestamp" THEN PyInt(ts) ELSE dumped[k]])

\* put_nowait on the queue passed to __init__; without one _bookkeeping_queue
\* is None and the call raises AttributeError
bookkeep(t, e, ts) ==
    LET c == owner[t]
    IN /\ Ready(t)
       /\ bookkeeping_queue' =
             IF has_queue[c]
             THEN Append(bookkeeping_queue, <<stream_id[c], timestamped_data(e, ts)>>)
             ELSE bookkeeping_queue
       /\ Called(t, "bookkeep", e, IF has_queue[c] THEN "ok" ELSE "AttributeError",
                 Null, <<>>)
       /\ UNCHANGED <<config, ghost, data, coordinator_proxy, registry, mailbox,
                      pc, lookups, hits, attempts, issued>>

\* the message error builds: no id is passed to Message
error_message(c, e) ==
    Message(DefaultId, "ERRORS", stream_id[c], ErrorsData(e))

error(t, e) ==
    LET c == owner[t]
        ok == coordinator(c) # NoProxy
        sent == IF ok THEN <<Entry(error_message(c, e), c, "error")>> ELSE <<>>
    IN /\ Ready(t)
       /\ ReadCoordinator(c)
       /\ Deliver(c, sent)
       /\ Called(t, "error", PyStr(e), IF ok THEN "ok" ELSE "AttributeError",
                 Null, sent)
       /\ UNCHANGED <<config, ghost, data, bookkeeping_queue, registry, pc>>

----------------------------------------------------------------------------
(* The actor registry, which other parts of the program change *)

register ==
    /\ ~registry
    /\ registry' = TRUE
    /\ UNCHANGED <<config, ghost, data, coordinator_proxy, bookkeeping_queue,
                   mailbox, pc, lookups, hits, attempts, issued, last, ncalls>>

unregister ==
    /\ registry
    /\ registry' = FALSE
    /\ UNCHANGED <<config, ghost, data, coordinator_proxy, bookkeeping_queue,
                   mailbox, pc, lookups, hits, attempts, issued, last, ncalls>>

----------------------------------------------------------------------------

Next ==
    \/ \E t \in Tasks, d \in Deltas : write(t, d)
    \/ \E t \in Tasks, m \in RawMessages : write_raw(t, m)
    \/ \E t \in Tasks : wake(t)
    \/ \E t \in Tasks : get_data(t)
    \/ \E t \in Tasks : finalize(t)
    \/ \E t \in Tasks, e \in Entries, ts \in Timestamps : bookkeep(t, e, ts)
    \/ \E t \in Tasks, e \in Errors : error(t, e)
    \/ register
    \/ unregister

Spec == Init /\ [][Next]_vars

----------------------------------------------------------------------------
(* stitch_model_objects on its own *)

EmptyDict == PyDict([k \in {} |-> Null])

\* the values handed to stitch_model_objects
MergeValues ==
    { Null, PyInt(0), PyInt(5), PyInt(7), PyStr(""), PyStr("foo"), PyStr("bar"),
      PyEnum("A"), PyEnum("B"),
      PyList(<<>>), PyList(<<PyInt(1)>>), PyList(<<PyInt(10), PyInt(20)>>),
      PyList(<<Null, PyStr("x")>>),
      EmptyDict, PyDict([a |-> PyInt(1)]), PyDict([a |-> PyInt(2), b |-> PyInt(3)]),
      RecU, PyModel("U", [text |-> Null]),
      PyModel("T", [x |-> PyInt(1), text |-> PyStr("b")]) }

InitMerge ==
    /\ InitCommon
    /\ output_cls = [c \in Clients |-> NoCls]
    /\ owner = OwnTasks
    /\ has_queue = [c \in Clients |-> TRUE]
    /\ stitch_call \in [obj1 : MergeValues, obj2 : MergeValues, out : {Null},
                         pc : {"call"}]

stitch ==
    /\ stitch_call.pc = "call"
    /\ stitch_call' = [stitch_call EXCEPT
                          !.out = stitch_model_objects(stitch_call.obj1, stitch_call.obj2),
                          !.pc = "done"]
    /\ UNCHANGED <<output_cls, message_id, stream_id, owner, has_queue, ghost,
                   data, coordinator_proxy, bookkeeping_queue, registry, mailbox,
                   pc, lookups, hits, attempts, issued, last, ncalls>>

NextMerge == stitch

SpecMerge == InitMerge /\ [][NextMerge]_vars

----------------------------------------------------------------------------
(* Writes of deltas that carry a tagged-enum *)

TagA == PyDict([tag |-> PyEnum("A")])
TagB == PyDict([tag |-> PyEnum("B")])
TagNull == PyDict([tag |-> Null])
NoTag == PyDict([text |-> PyStr("x")])

EnumDeltas == {PyEnum("A"), PyEnum("B"), TagA, TagB, TagNull, NoTag}

InitEnum ==
    /\ Init
    /\ output_cls = [c \in Clients |-> NoCls]

NextEnum ==
    \/ \E t \in Tasks, d \in EnumDeltas : write(t, d)
    \/ \E t \in Tasks : wake(t)

SpecEnum == InitEnum /\ [][NextEnum]_vars

----------------------------------------------------------------------------
(* Bookkeeping, on clients made with and without a queue *)

RecStamped == PyModel("E", [timestamp |-> PyInt(9), text |-> PyStr("e")])

BookEntries == {RecU, RecStamped}
BookTimestamps == {1, 2}

InitBook ==
    /\ InitCommon
    /\ output_cls = [c \in Clients |-> NoCls]
    /\ owner = OwnTasks
    /\ has_queue \in [Clients -> BOOLEAN]
    /\ stitch_call = NoStitch

NextBook ==
    \/ \E t \in Tasks, e \in BookEntries, ts \in BookTimestamps : bookkeep(t, e, ts)
    \/ \E t \in Tasks : write(t, DictHello)
    \/ \E t \in Tasks : wake(t)
    \/ \E t \in Tasks : finalize(t)
    \/ unregister

SpecBook == InitBook /\ [][NextBook]_vars

----------------------------------------------------------------------------
(* Two tasks calling one client *)

SharedClient == "c1"

InitShared ==
    /\ InitCommon
    /\ owner = [t \in Tasks |-> SharedClient]
    /\ has_queue = [c \in Clients |-> TRUE]
    /\ stitch_call = NoStitch

SpecShared == InitShared /\ [][Next]_vars

----------------------------------------------------------------------------
(* What the properties read off the state *)

\* what client c has relayed so far, in mailbox order
RelayedBy(c) == SelectSeq(mailbox, LAMBDA e : e.by = c)

\* the kinds of the envelopes c's write and finalize calls relayed (the
\* ERRORS envelopes of error and the caller's raw envelopes left out)
StreamKinds(c) ==
    LET own == SelectSeq(mailbox, LAMBDA e : e.by = c /\ e.op \in {"write", "finalize"}
                                             /\ e.msg.type # "ERRORS")
    IN [i \in 1..Len(own) |-> own[i].msg.type]

\* k is a prefix of CHUNK* END CONTENT
IsStreamPrefix(k) ==
    \E n \in 0..Len(k) :
        /\ \A i \in 1..n : k[i] = "CONTENT_STREAM_CHUNK"
        /\ Len(k) <= n + 2
        /\ Len(k) >= n + 1 => k[n + 1] = "CONTENT_STREAM_END"
        /\ Len(k) >= n + 2 => k[n + 2] = "CONTENT"

\* the payloads of the chunk envelopes c's writes relayed
ChunkPayloads(c) ==
    LET own == SelectSeq(mailbox, LAMBDA e : e.by = c /\ e.op = "write")
    IN [i \in 1..Len(own) |-> own[i].msg.data[2]]

\* the deltas c wrote since its accumulator was last absent
Since(c) == SubSeq(written[c], base[c] + 1, Len(written[c]))

\* the deltas are all plain values, or all models of one class
Homogeneous(ds) ==
    \/ \A i \in 1..Len(ds) : ~IsBaseModel(ds[i])
    \/ \A i, j \in 1..Len(ds) :
          IsBaseModel(ds[i]) /\ IsBaseModel(ds[j]) /\ ds[i][2] = ds[j][2]

\* merge(...merge(merge(d1, d2), d3)..., dn)
RECURSIVE merge_all(_)
merge_all(ds) ==
    IF Len(ds) = 1 THEN ds[1]
    ELSE stitch_model_objects(merge_all(SubSeq(ds, 1, Len(ds) - 1)), ds[Len(ds)])

----------------------------------------------------------------------------
(* C1 *)

\* C1 as stated: whatever calls are made, the envelopes a client's write and
\* finalize calls have relayed are a prefix of CHUNK* END CONTENT
C1_AnySequenceIsStreamPrefix ==
    \A c \in Clients : IsStreamPrefix(StreamKinds(c))

\* C1, amended: as long as no write or finalize is called on a client after a
\* finalize of it relayed its envelopes, the envelopes the client has relayed,
\* ERRORS removed, are a prefix of CHUNK* END CONTENT
C1_StreamPrefixUntilReuse ==
    \A c \in Clients : ~misused[c] => IsStreamPrefix(StreamKinds(c))

C1_Witness ==
    \E c \in Clients :
        /\ ~misused[c]
        /\ StreamKinds(c) = <<"CONTENT_STREAM_CHUNK", "CONTENT_STREAM_END", "CONTENT">>

----------------------------------------------------------------------------
(* C2 *)

FinalizeSucceeded == last.op = "finalize" /\ last.outcome = "ok"

\* the two envelopes are the last two of the mailbox, END without payload first
FinalizeRelayedEndThenContent ==
    /\ Len(last.relayed) = 2
    /\ Len(mailbox) >= 2
    /\ SubSeq(mailbox, Len(mailbox) - 1, Len(mailbox)) = last.relayed
    /\ last.relayed[1].msg.type = "CONTENT_STREAM_END"
    /\ last.relayed[1].msg.data = NoData
    /\ last.relayed[2].msg.type = "CONTENT"

\* C2 as stated: a successful finalize relays END then CONTENT, the CONTENT
\* payload is the value accumulated by the writes, which is also the output
\* returned, and get_data() is absent afterwards
C2_ContentIsAccumulator ==
    FinalizeSucceeded =>
        /\ FinalizeRelayedEndThenContent
        /\ last.relayed[2].msg.data = ContentData(last.before)
        /\ last.ret = last.before
        /\ data[last.client] = Null

\* C2, amended: a successful finalize relays END then CONTENT; the output it
\* returns is the accumulated value when no output class is set or the
\* accumulator is a model, else the output class built from the accumulated
\* dict; the CONTENT payload is that output, as the dict of its fields when it
\* is a model; get_data() is absent afterwards
C2_ContentIsDumpedOutput ==
    FinalizeSucceeded =>
        /\ FinalizeRelayedEndThenContent
        /\ last.ret = IF output_cls[last.client] = NoCls \/ IsBaseModel(last.before)
                      THEN last.before
                      ELSE Construct(output_cls[last.client], last.before)
        /\ last.relayed[2].msg.data =
              ContentData(IF IsBaseModel(last.ret) THEN model_dump(last.ret) ELSE last.ret)
        /\ data[last.client] = Null

C2_Witness ==
    /\ FinalizeSucceeded
    /\ output_cls[last.client] = "T"
    /\ IsDict(last.before)
    /\ IsBaseModel(last.ret)

C2_WitnessHelloWorld ==
    /\ FinalizeSucceeded
    /\ last.before = PyDict([text |-> PyStr("Hello World")])

----------------------------------------------------------------------------
(* C3 *)

\* C3 as stated: the chunk envelopes of a client carry the deltas of its
\* writes exactly as given, one envelope per write, in order
C3_ChunkIsDeltaAsGiven ==
    \A c \in Clients : ChunkPayloads(c) = written[c]

\* C3, amended: every write that reaches the coordinator relays exactly one
\* CONTENT_STREAM_CHUNK envelope; its payload is the delta as given, except
\* that a model delta is relayed as the dict of its fields; it is never the
\* accumulated value
C3_ChunkIsDumpedDelta ==
    /\ \A c \in Clients :
          ChunkPayloads(c) = [i \in 1..Len(written[c]) |->
                                 IF IsBaseModel(written[c][i])
                                 THEN model_dump(written[c][i]) ELSE written[c][i]]
    /\ last.op = "write" /\ last.outcome = "ok" =>
          /\ Len(last.relayed) = 1
          /\ last.relayed[1].msg.type = "CONTENT_STREAM_CHUNK"

C3_Witness ==
    \E c \in Clients :
        /\ Len(written[c]) >= 2
        /\ IsBaseModel(written[c][1])
        /\ IsDict(written[c][2])
        /\ data[c] # written[c][2]

----------------------------------------------------------------------------
(* C4 *)

\* C4: after the writes d1..dn that followed an absent accumulator,
\* get_data() is merge(...merge(d1, d2)..., dn), for plain deltas and for
\* deltas that are models of one class alike; a model and the dict of its
\* fields are taken as the same value here, so that the way the first delta
\* is stored does not count as a difference
C4_AccumulatorIsMergeOfDeltas ==
    \A c \in Clients :
        Since(c) # <<>> /\ Homogeneous(Since(c)) =>
            DumpIfModel(data[c]) = DumpIfModel(merge_all(Since(c)))

----------------------------------------------------------------------------
(* C5 *)

\* C5: a finalize on a client with an output class whose required fields the
\* accumulator does not hold raises and relays nothing
C5_UnsatisfiedTargetRaises ==
    last.op = "finalize" /\ output_cls[last.client] # NoCls
                         /\ ~Satisfies(output_cls[last.client], last.before)
        => last.outcome = "ConstructionError" /\ last.relayed = <<>>

----------------------------------------------------------------------------
(* C6 *)

\* C6: write returns normally whether or not the coordinator was found, and
\* the delta is merged into the accumulator
C6_WriteNeverRaises ==
    last.op = "write" =>
        /\ last.outcome = "ok"
        /\ data[last.client] = accumulate(last.before, last.arg)

----------------------------------------------------------------------------
(* C7 *)

\* C7: every envelope a client builds (in write, finalize and error) carries
\* the client's message id and has the client's stream id as sender
C7_OneIdPerClient ==
    \A i \in 1..Len(mailbox) :
        mailbox[i].op # "write_raw" =>
            /\ mailbox[i].msg.id = message_id[mailbox[i].by]
            /\ mailbox[i].msg.sender = stream_id[mailbox[i].by]

----------------------------------------------------------------------------
(* C8 *)

----------------------------------------------------------------------------
(* C9 *)

\* C9: in every interleaving each client's accumulator is the merge of its
\* own deltas in its own call order (absent when it has none), and a finalize
\* on one client leaves the accumulator of the other as it was; as in C4 the
\* deltas are plain values or models of one class, and a model and the dict
\* of its fields are taken as the same value
C9_AccumulatorsAreIndependent ==
    [][ /\ \A c \in Clients :
              LET own == SubSeq(written'[c], base'[c] + 1, Len(written'[c]))
              IN Homogeneous(own) =>
                    DumpIfModel(data'[c]) =
                        IF own = <<>> THEN Null ELSE DumpIfModel(merge_all(own))
        /\ ncalls' # ncalls /\ last'.op = "finalize" =>
              \A c \in Clients \ {last'.client} : data'[c] = data[c]
      ]_vars

----------------------------------------------------------------------------
(* C10 *)

\* C10: the registry is not queried before a client's first relay, at most
\* one query of a client succeeds, and once a proxy is cached every later
\* relay keeps that proxy and makes no query
C10_LazyCachedResolution ==
    [][ \A c \in Clients :
          /\ attempts'[c] = 0 => lookups'[c] = 0
          /\ hits'[c] <= 1
          /\ coordinator_proxy[c] # NoProxy =>
                /\ coordinator_proxy'[c] = coordinator_proxy[c]
                /\ lookups'[c] = lookups[c]
      ]_vars

C10_Witness ==
    \E c \in Clients :
        /\ coordinator_proxy[c] # NoProxy
        /\ attempts[c] >= 3
        /\ lookups[c] = 2
        /\ hits[c] = 1
        /\ ~registry

----------------------------------------------------------------------------
(* C11 *)

\* a step that is a call of operation op
CallStep(op) == ncalls' # ncalls /\ last'.op = op

\* C11: the accumulator starts absent; only write changes it to a value and
\* only finalize makes it absent, each for the client it is called on;
\* get_data, write_raw, error and bookkeep leave every accumulator as it is,
\* and get_data relays nothing and pushes nothing to the bookkeeping queue
C11_AccumulatorFrame ==
    /\ [](ncalls = 0 => \A c \in Clients : data[c] = Null)
    /\ [][ /\ \A c \in Clients :
                data'[c] # data[c] =>
                    /\ last'.client = c
                    /\ IF data'[c] = Null THEN CallStep("finalize")
                       ELSE CallStep("write")
           /\ (\E op \in {"get_data", "write_raw", "error", "bookkeep"} : CallStep(op))
                => data' = data
           /\ CallStep("get_data") =>
                /\ mailbox' = mailbox
                /\ bookkeeping_queue' = bookkeeping_queue
                /\ last'.ret = data[last'.client]
         ]_vars

C11_Witness ==
    /\ last.op = "get_data"
    /\ last.ret # Null
    /\ data[last.client] = last.ret
    /\ mailbox # <<>>
    /\ \E c \in Clients : c # last.client /\ data[c] # Null

----------------------------------------------------------------------------
(* C12 *)

\* C12: on a client with an output class every successful finalize returns
\* an instance of that class
C12_FinalizeReturnsTarget ==
    FinalizeSucceeded /\ output_cls[last.client] # NoCls =>
        IsBaseModel(last.ret) /\ last.ret[2] = output_cls[last.client]

----------------------------------------------------------------------------
(* C19 *)

FinalizeFailedToConstruct ==
    last.op = "finalize" /\ last.outcome = "ConstructionError"

\* C19: a finalize that raises in the constructor changes nothing: the
\* accumulator, the cached proxy, the mailbox and the queue are as before,
\* and a write of the client that follows merges into the accumulator that
\* was there before the finalize
C19_FailedFinalizeKeepsState ==
    [][ /\ CallStep("finalize") /\ last'.outcome = "ConstructionError" =>
              /\ data' = data
              /\ last'.before = data[last'.client]
              /\ UNCHANGED <<coordinator_proxy, mailbox, bookkeeping_queue,
                             lookups, attempts, pc>>
        /\ FinalizeFailedToConstruct /\ CallStep("write")
              /\ last'.client = last.client /\ last'.outcome = "ok" =>
              /\ last'.before = last.before
              /\ data'[last.client] =
                    IF IsNone(last.before) THEN DumpIfModel(last'.arg)
                    ELSE stitch_model_objects(last.before, last'.arg)
      ]_vars

C19_Witness ==
    /\ FinalizeFailedToConstruct
    /\ last.before = DictHello
    /\ data[last.client] = DictHello

----------------------------------------------------------------------------
(* C20 *)

\* C20: while no proxy is cached every read of _coordinator has queried the
\* registry and none of the queries succeeded; once a proxy is cached it is
\* the one made by the client's first successful query, which was its last
C20_FailedLookupNotCached ==
    \A c \in Clients :
        IF coordinator_proxy[c] = NoProxy
        THEN hits[c] = 0 /\ lookups[c] = attempts[c]
        ELSE hits[c] = 1 /\ coordinator_proxy[c] = lookups[c]
                         /\ lookups[c] <= attempts[c]

C20_Witness ==
    \E c \in Clients :
        /\ coordinator_proxy[c] = 2
        /\ last.client = c
        /\ last.outcome = "ok"
        /\ registry

----------------------------------------------------------------------------
(* C13 *)

Stitched == stitch_call.pc = "done"

\* C13: merge(null, x) = x and merge(x, null) = x for every value x
C13_NullIsIdentity ==
    Stitched =>
        /\ stitch_call.obj1 = Null => stitch_call.out = stitch_call.obj2
        /\ stitch_call.obj2 = Null => stitch_call.out = stitch_call.obj1

C13_Witness ==
    /\ Stitched
    /\ stitch_call.obj1 = EmptyDict
    /\ stitch_call.obj2 = Null
    /\ stitch_call.out = EmptyDict

----------------------------------------------------------------------------
(* C14 *)

\* the pairs the rules before the last one take: records of one class, two
\* mappings, two sequences, two tagged-enums, two texts
SameShape(a, b) ==
    \/ a[1] = "model" /\ b[1] = "model" /\ a[2] = b[2]
    \/ a[1] = b[1] /\ a[1] \in {"dict", "list", "enum", "str"}

\* zero and the empty text, sequence and mapping
IsZeroOrEmpty(v) == v \in {PyInt(0), PyStr(""), PyList(<<>>), EmptyDict}

----------------------------------------------------------------------------
(* C15 *)

\* element i of a list, None past its end
ElementOrNull(q, i) == IF i <= Len(q) THEN q[i] ELSE Null

\* C15: the merge of two sequences, empty ones included, is a sequence as
\* long as the longer one whose element i is the merge of the two elements
\* i, a missing element counting as null; merge([1], [10, 20]) = [10, 20]
C15_ListsMergeElementwise ==
    Stitched /\ stitch_call.obj1[1] = "list" /\ stitch_call.obj2[1] = "list" =>
        LET a == stitch_call.obj1[2]
            b == stitch_call.obj2[2]
            out == stitch_call.out
        IN /\ out[1] = "list"
           /\ Len(out[2]) = IF Len(a) >= Len(b) THEN Len(a) ELSE Len(b)
           /\ \A i \in 1..Len(out[2]) :
                  out[2][i] = stitch_model_objects(ElementOrNull(a, i),
                                                   ElementOrNull(b, i))
           /\ a = <<PyInt(1)>> /\ b = <<PyInt(10), PyInt(20)>> =>
                  out = PyList(<<PyInt(10), PyInt(20)>>)

C15_Witness ==
    /\ Stitched
    /\ stitch_call.obj1 = PyList(<<PyInt(10), PyInt(20)>>)
    /\ stitch_call.obj2 = PyList(<<PyInt(1)>>)
    /\ stitch_call.out = PyList(<<PyInt(1), PyInt(20)>>)

----------------------------------------------------------------------------
(* C16 *)

\* the writes of ds that supplied a non-null tag
Tagging(ds) ==
    {i \in 1..Len(ds) : "tag" \in DOMAIN ds[i][2] /\ ds[i][2]["tag"] # Null}

\* C16: after writes of tagged-enum deltas the accumulator is the tag of the
\* last write (merge(A, A) = A, merge(A, B) = B); after writes of mappings
\* the field "tag" of the accumulator is the tag of the last write that
\* supplied a non-null one
C16_LatestEnumWins ==
    \A c \in Clients :
        LET ds == written[c]
        IN /\ ds # <<>> /\ (\A i \in 1..Len(ds) : ds[i][1] = "enum") =>
                  data[c] = ds[Len(ds)]
           /\ (\A i \in 1..Len(ds) : ds[i][1] = "dict") /\ Tagging(ds) # {} =>
                  LET n == CHOOSE i \in Tagging(ds) : \A j \in Tagging(ds) : j <= i
                  IN data[c][2]["tag"] = ds[n][2]["tag"]

C16_Witness ==
    \E c \in Clients :
        /\ written[c] = <<TagA, TagB, TagNull>>
        /\ data[c] = TagB

----------------------------------------------------------------------------
(* C17 *)

\* C17 as stated: in any state of the client a bookkeep call returns
\* normally and its entry, under the client's stream id, is the last of the
\* queue
C17_BookkeepNeverFails ==
    last.op = "bookkeep" =>
        /\ last.outcome = "ok"
        /\ bookkeeping_queue # <<>>
        /\ bookkeeping_queue[Len(bookkeeping_queue)][1] = stream_id[last.client]

\* C17, amended: on a client made with a bookkeeping queue every bookkeep
\* call returns normally and adds exactly one entry at the end of the queue:
\* the client's stream id with the dict of the entry's fields in which the
\* key "timestamp" holds the clock reading; it relays nothing, changes no
\* accumulator and does not suspend the task
C17_BookkeepAppendsOne ==
    [][ CallStep("bookkeep") /\ has_queue[last'.client] =>
          LET c == last'.client
              fields == last'.arg[3]
              n == Len(bookkeeping_queue)
          IN /\ last'.outcome = "ok"
             /\ Len(bookkeeping_queue') = n + 1
             /\ SubSeq(bookkeeping_queue', 1, n) = bookkeeping_queue
             /\ bookkeeping_queue'[n + 1][1] = stream_id[c]
             /\ bookkeeping_queue'[n + 1][2][1] = "dict"
             /\ LET pushed == bookkeeping_queue'[n + 1][2][2]
                IN /\ DOMAIN pushed = DOMAIN fields \cup {"timestamp"}
                   /\ \A k \in DOMAIN fields \ {"timestamp"} : pushed[k] = fields[k]
                   /\ \E ts \in BookTimestamps : pushed["timestamp"] = PyInt(ts)
             /\ UNCHANGED <<mailbox, data, pc, coordinator_proxy>>
      ]_vars

C17_Witness ==
    /\ last.op = "bookkeep"
    /\ last.outcome = "ok"
    /\ Len(bookkeeping_queue) = 2
    /\ bookkeeping_queue[1][1] # bookkeeping_queue[2][1]
    /\ last.arg = RecStamped
    /\ data[last.client] # Null

----------------------------------------------------------------------------
(* C18 *)

\* C18: with the write calls of several tasks on one client interleaved at
\* their suspension points, the accumulator of the client is the
\* left-to-right merge of the chunks its writes relayed since it was last
\* absent, in the order of their relay, none left out and none merged twice
C18_SharedClientMergesInRelayOrder ==
    LET chunks == ChunkPayloads(SharedClient)
        k == Len(Since(SharedClient))
    IN k > 0 /\ Homogeneous(Since(SharedClient)) =>
          /\ Len(chunks) >= k
          /\ DumpIfModel(data[SharedClient]) =
                merge_all(SubSeq(chunks, Len(chunks) - k + 1, Len(chunks)))

====
